---- MODULE Spec2Model ----
(***************************************************************************)
(* A model of pytest_elasticsearch/executor.py: NoopElasticsearch and      *)
(* ElasticSearchExecutor (version detection, launch command construction,  *)
(* Authorization header derivation, hand-off to the process supervisor).   *)
(*                                                                         *)
(* Text is modelled as a sequence of one-character strings.  The literal   *)
(* pieces of a message or of the command template are kept as single       *)
(* multi-character elements of such a sequence; everything a regular       *)
(* expression or an encoder looks into is character by character.          *)
(***************************************************************************)
EXTENDS Integers, Sequences, FiniteSets

VARIABLES
    binary,       \* the program found at the executable path: exists, exit status, stdout
    pc,           \* "new" | "constructed" | "raised": where ElasticSearchExecutor() is
    cfg,          \* the constructor's arguments, as stored on self
    _version,     \* self._version
    raised,       \* the exception the constructor raised, if any
    supervisor,   \* what HTTPExecutor.__init__ was handed
    invocations,  \* calls of check_output on this instance
    captured,     \* what the last call of check_output gave: its outcome and the stdout
    ret,          \* the value the last read of .version returned
    reads,        \* reads of .version after construction
    proc,         \* the supervised OS process: "none" | "running" | "stopped"
    noop,         \* the NoopElasticsearch instance
    noop_ret      \* what its running() returned: "unset" | "True" | "False"

vars == <<binary, pc, cfg, _version, raised, supervisor, invocations, captured, ret,
          reads, proc, noop, noop_ret>>

----------------------------------------------------------------------------
(* Bounds of the model *)

\* reads of .version after construction
MaxReads == 2

----------------------------------------------------------------------------
(* Text helpers *)

Ascii ==
    <<" ", "!", "\"", "#", "$", "%", "&", "'", "(", ")", "*", "+", ",", "-", ".", "/",
      "0", "1", "2", "3", "4", "5", "6", "7", "8", "9", ":", ";", "<", "=", ">", "?",
      "@", "A", "B", "C", "D", "E", "F", "G", "H", "I", "J", "K", "L", "M", "N", "O",
      "P", "Q", "R", "S", "T", "U", "V", "W", "X", "Y", "Z", "[", "\\", "]", "^", "_",
      "GRAVE", "a", "b", "c", "d", "e", "f", "g", "h", "i", "j", "k", "l", "m", "n", "o",
      "p", "q", "r", "s", "t", "u", "v", "w", "x", "y", "z", "{", "|", "}", "~">>

\* str.encode() of one ASCII character: its code point (Ascii lists the printable
\* characters from code 32 on; the grave accent, code 96, is spelled out)
Ord(c) == 31 + CHOOSE i \in DOMAIN Ascii : Ascii[i] = c

Encode(text) == [i \in DOMAIN text |-> Ord(text[i])]

Digits == <<"0", "1", "2", "3", "4", "5", "6", "7", "8", "9">>

IsDigit(c) == \E i \in DOMAIN Digits : Digits[i] = c

DigitValue(c) == (CHOOSE i \in DOMAIN Digits : Digits[i] = c) - 1

\* int(text) of a run of decimal digits
RECURSIVE ToInt(_)
ToInt(text) ==
    IF text = <<>> THEN 0
    ELSE 10 * ToInt(SubSeq(text, 1, Len(text) - 1)) + DigitValue(text[Len(text)])

\* str(n) of a non-negative integer
RECURSIVE Dec(_)
Dec(n) == IF n < 10 THEN <<Digits[n + 1]>> ELSE Dec(n \div 10) \o <<Digits[(n % 10) + 1]>>

\* whether `part` occurs in `text` at index i
OccursAt(part, text, i) ==
    /\ i >= 1
    /\ i + Len(part) - 1 <= Len(text)
    /\ SubSeq(text, i, i + Len(part) - 1) = part

Contains(text, part) == \E i \in 1..(Len(text) + 1) : OccursAt(part, text, i)

\* the number of places where the one-element piece `piece` occurs in `text`
Count(text, piece) == Cardinality({i \in DOMAIN text : text[i] = piece})

----------------------------------------------------------------------------
(* base64.b64encode and the Authorization header, __init__ lines 83-89 *)

B64Alphabet ==
    <<"A", "B", "C", "D", "E", "F", "G", "H", "I", "J", "K", "L", "M", "N", "O", "P",
      "Q", "R", "S", "T", "U", "V", "W", "X", "Y", "Z", "a", "b", "c", "d", "e", "f",
      "g", "h", "i", "j", "k", "l", "m", "n", "o", "p", "q", "r", "s", "t", "u", "v",
      "w", "x", "y", "z", "0", "1", "2", "3", "4", "5", "6", "7", "8", "9", "+", "/">>

B64Char(n) == B64Alphabet[n + 1]

\* base64.b64encode(data): the bytes of the encoding, shown by their characters
RECURSIVE B64Encode(_)
B64Encode(data) ==
    IF Len(data) = 0 THEN <<>>
    ELSE IF Len(data) = 1 THEN
        <<B64Char(data[1] \div 4), B64Char((data[1] % 4) * 16), "=", "=">>
    ELSE IF Len(data) = 2 THEN
        <<B64Char(data[1] \div 4),
          B64Char((data[1] % 4) * 16 + data[2] \div 16),
          B64Char((data[2] % 16) * 4), "=">>
    ELSE
        <<B64Char(data[1] \div 4),
          B64Char((data[1] % 4) * 16 + data[2] \div 16),
          B64Char((data[2] % 16) * 4 + data[3] \div 64),
          B64Char(data[3] % 64)>> \o B64Encode(SubSeq(data, 4, Len(data)))

\* format(token) of a bytes object inside an f-string: its repr, b'...'
BytesFormat(token) == <<"b", "'">> \o token \o <<"'">>

NoAuth == [present |-> FALSE, login |-> <<>>, password |-> <<>>]

NoHeaders == [present |-> FALSE, Authorization |-> <<>>]

\* headers, as __init__ derives them from http_auth
Headers(http_auth) ==
    IF http_auth.present
    THEN LET token == B64Encode(Encode(http_auth.login \o <<":">> \o http_auth.password))
         IN  [present |-> TRUE, Authorization |-> <<"Basic ">> \o BytesFormat(token)]
    ELSE NoHeaders

----------------------------------------------------------------------------
(* Version detection: the version property, lines 98-124 *)

VersionPrefix == <<"V", "e", "r", "s", "i", "o", "n", ":", " ">>

\* the length of the longest run of digits of text that starts at index i
RECURSIVE DigitRun(_, _)
DigitRun(text, i) ==
    IF i <= Len(text) /\ IsDigit(text[i]) THEN 1 + DigitRun(text, i + 1) ELSE 0

IsChar(text, i, c) == i <= Len(text) /\ text[i] = c

\* a faulty variant: the pattern  Version: (\d)\.(\d+)\.(\d)  with a one-digit patch
MatchAt_one_digit_patch(text, i) ==
    LET m    == i + Len(VersionPrefix)
        n    == m + 2
        nLen == DigitRun(text, n)
        p    == n + nLen + 1
    IN  IF /\ OccursAt(VersionPrefix, text, i)
           /\ m <= Len(text) /\ IsDigit(text[m])
           /\ IsChar(text, m + 1, ".")
           /\ nLen >= 1
           /\ IsChar(text, n + nLen, ".")
           /\ p <= Len(text) /\ IsDigit(text[p])
        THEN [major |-> <<text[m]>>,
              minor |-> SubSeq(text, n, n + nLen - 1),
              patch |-> <<text[p]>>]
        ELSE <<>>

\* the groups of  Version: (\d)\.(\d+)\.(\d+)  matched at index i, or <<>>
MatchAt(text, i) ==
    LET m    == i + Len(VersionPrefix)
        n    == m + 2
        nLen == DigitRun(text, n)
        p    == n + nLen + 1
        pLen == DigitRun(text, p)
    IN  IF /\ OccursAt(VersionPrefix, text, i)
           /\ m <= Len(text) /\ IsDigit(text[m])
           /\ IsChar(text, m + 1, ".")
           /\ nLen >= 1
           /\ IsChar(text, n + nLen, ".")
           /\ pLen >= 1
        THEN [major |-> <<text[m]>>,
              minor |-> SubSeq(text, n, n + nLen - 1),
              patch |-> SubSeq(text, p, p + pLen - 1)]
        ELSE <<>>

\* re.search: the groups of the leftmost match, or <<>> (None)
ReSearch(text) ==
    LET hits == {i \in DOMAIN text : MatchAt(text, i) # <<>>}
    IN  IF hits = {} THEN <<>>
        ELSE MatchAt(text, CHOOSE i \in hits : \A j \in hits : i <= j)

\* ".".join(parts)
RECURSIVE Join(_)
Join(parts) ==
    IF Len(parts) = 0 THEN <<>>
    ELSE IF Len(parts) = 1 THEN parts[1]
    ELSE parts[1] \o <<".">> \o Join(Tail(parts))

\* text.split("."), for a text of dot-separated digit runs
RECURSIVE SplitDots(_)
SplitDots(text) ==
    LET k == DigitRun(text, 1)
    IN  IF k = Len(text) THEN <<text>>
        ELSE <<SubSeq(text, 1, k)>> \o SplitDots(SubSeq(text, k + 2, Len(text)))

\* pkg_resources.parse_version of a dotted release: the release as integers
parse_version(text) ==
    LET parts == SplitDots(text) IN [i \in DOMAIN parts |-> ToInt(parts[i])]

\* a release without its trailing zeros, as the comparison key takes it
RECURSIVE StripZeros(_)
StripZeros(release) ==
    IF Len(release) > 0 /\ release[Len(release)] = 0
    THEN StripZeros(SubSeq(release, 1, Len(release) - 1))
    ELSE release

RECURSIVE TupleLess(_, _)
TupleLess(a, b) ==
    IF b = <<>> THEN FALSE
    ELSE IF a = <<>> THEN TRUE
    ELSE IF a[1] # b[1] THEN a[1] < b[1]
    ELSE TupleLess(Tail(a), Tail(b))

\* Version.__lt__
VersionLess(a, b) == TupleLess(StripZeros(a), StripZeros(b))

\* self._version = None
None == <<>>

NoError == [type |-> "none", msg |-> <<>>]

NotRecognized ==
    "Elasticsearch version is not recognized. It is probably not supported. \nOutput is: "

\* subprocess.check_output([executable, "-Vv"]) against the program at that path
check_output(bin) ==
    IF ~bin.exists THEN [kind |-> "OSError", output |-> <<>>]
    ELSE IF bin.exit # 0 THEN [kind |-> "CalledProcessError", output |-> bin.output]
    ELSE [kind |-> "ok", output |-> bin.output]

\* a faulty variant: the cache is never consulted
Cached_never(self_version) == FALSE

\* "if not self._version": whether a version is cached
Cached(self_version) == self_version # None

\* a faulty variant: the message leaves the output out
NotRecognizedError_no_output(output) ==
    [type |-> "RuntimeError", msg |-> <<NotRecognized>>]

\* the RuntimeError raised when re.search finds nothing, lines 110-115
NotRecognizedError(output) ==
    [type |-> "RuntimeError", msg |-> <<NotRecognized>> \o output]

\* a faulty variant: the message leaves the path out
NotPointingError_no_path(executable) ==
    [type |-> "RuntimeError", msg |-> <<"executable does not point to elasticsearch.">>]

\* the RuntimeError an OSError of check_output is turned into, lines 120-123
NotPointingError(executable) ==
    [type |-> "RuntimeError",
     msg  |-> <<"'">> \o executable \o <<"' does not point to elasticsearch.">>]

\* the version property: the new self._version, the calls of check_output made,
\* and the value returned or the exception raised
version(self_version, executable, bin) ==
    IF ~Cached(self_version)
    THEN LET out   == check_output(bin)
             match == ReSearch(out.output)
         IN  IF out.kind = "OSError" THEN
                 [_version |-> self_version, calls |-> 1, value |-> None,
                  error |-> NotPointingError(executable)]
             ELSE IF out.kind = "CalledProcessError" THEN
                 [_version |-> self_version, calls |-> 1, value |-> None,
                  error |-> [type |-> "CalledProcessError", msg |-> <<>>]]
             ELSE IF match = <<>> THEN
                 [_version |-> self_version, calls |-> 1, value |-> None,
                  error |-> NotRecognizedError(out.output)]
             ELSE
                 LET v == parse_version(Join(<<match.major, match.minor, match.patch>>))
                 IN  [_version |-> v, calls |-> 1, value |-> v, error |-> NoError]
    ELSE [_version |-> self_version, calls |-> 0, value |-> self_version,
          error |-> NoError]

----------------------------------------------------------------------------
(* The launch command, _exec_command, lines 126-143 *)

NL == "\n            "

SP == " "

End == "\n        "

MinVersionText == <<"6", ".", "0", ".", "0">>

NotSupported == "This elasticsearch version is not supported."

\* a faulty variant: http.port and transport.tcp.port take each other's value
CommandText_swapped(c) ==
    <<NL>> \o c.executable \o <<SP, "-p", SP>> \o c.pidfile
    \o <<NL, "-E", SP, "http.port=">> \o Dec(c.tcp_port)
    \o <<NL, "-E", SP, "transport.tcp.port=">> \o Dec(c.port)
    \o <<NL, "-E", SP, "path.logs=">> \o c.logs_path
    \o <<NL, "-E", SP, "path.data=">> \o c.works_path
    \o <<NL, "-E", SP, "cluster.name=">> \o c.cluster_name
    \o <<NL, "-E", SP, "network.host=", "'">> \o c.network_publish_host \o <<"'">>
    \o <<NL, "-E", SP, "index.store.type=">> \o c.index_store_type
    \o <<End>>

CommandText(c) ==
    <<NL>> \o c.executable \o <<SP, "-p", SP>> \o c.pidfile
    \o <<NL, "-E", SP, "http.port=">> \o Dec(c.port)
    \o <<NL, "-E", SP, "transport.tcp.port=">> \o Dec(c.tcp_port)
    \o <<NL, "-E", SP, "path.logs=">> \o c.logs_path
    \o <<NL, "-E", SP, "path.data=">> \o c.works_path
    \o <<NL, "-E", SP, "cluster.name=">> \o c.cluster_name
    \o <<NL, "-E", SP, "network.host=", "'">> \o c.network_publish_host \o <<"'">>
    \o <<NL, "-E", SP, "index.store.type=">> \o c.index_store_type
    \o <<End>>

\* a faulty variant: the floor is 5.0.0
Unsupported_floor5(v) == VersionLess(v, <<5, 0, 0>>)

\* self.version < parse_version("6.0.0")
Unsupported(v) == VersionLess(v, parse_version(MinVersionText))

\* _exec_command, given what reading self.version gave
_exec_command(c, v) ==
    IF v.error # NoError THEN [command |-> <<>>, error |-> v.error]
    ELSE IF Unsupported(v.value)
    THEN [command |-> <<>>, error |-> [type |-> "RuntimeError", msg |-> <<NotSupported>>]]
    ELSE [command |-> CommandText(c), error |-> NoError]

\* f"http://{self.host}:{self.port}"
Url(c) == <<"http://">> \o c.host \o <<":">> \o Dec(c.port)

NotHanded == [handed |-> FALSE, command |-> <<>>, url |-> <<>>, timeout |-> 0,
              headers |-> NoHeaders]

----------------------------------------------------------------------------
(* The inputs: programs behind the executable path, and constructor arguments *)

T_Version(major, minor, patch) ==
    VersionPrefix \o major \o <<".">> \o minor \o <<".">> \o patch

Ran(out) == [exists |-> TRUE, exit |-> 0, output |-> out]

Missing == [exists |-> FALSE, exit |-> 0, output |-> <<>>]

\* stdout of an elasticsearch of some version, with what may surround the line
VersionOutputs ==
    {pre \o T_Version(major, minor, patch) \o suf :
        pre \in {<<>>, <<"x", "\n">>},
        major \in {<<"5">>, <<"6">>, <<"7">>},
        minor \in {<<"0">>, <<"1", "0">>},
        patch \in {<<"0">>, <<"1", "6">>, <<"0", "2">>},
        suf \in {<<>>, <<",", " ">>, <<".", "1">>}}

\* stdout with no version in the expected format, or with two
OtherOutputs ==
    {<<>>,
     T_Version(<<"1", "0">>, <<"2">>, <<"3">>),
     VersionPrefix \o <<"7", ".", "1">>,
     VersionPrefix \o <<"7", ".", "x", ".", "2">>,
     <<"v", "e", "r", "s", "i", "o", "n", ":", " ", "7", ".", "1", ".", "2">>,
     VersionPrefix \o <<"7", ".", "1", ".", " ">> \o T_Version(<<"5">>, <<"6">>, <<"1", "6">>),
     T_Version(<<"7">>, <<"1", "0">>, <<"2">>) \o <<"\n">> \o T_Version(<<"8">>, <<"0">>, <<"0">>)}

\* the programs the executable path may turn into at any time
Binaries ==
    {Missing,
     Ran(T_Version(<<"7">>, <<"1", "0">>, <<"2">>)),
     Ran(T_Version(<<"5">>, <<"6">>, <<"1", "6">>)),
     Ran(T_Version(<<"6">>, <<"0">>, <<"0">>)),
     Ran(T_Version(<<"1", "0">>, <<"2">>, <<"3">>)),
     [exists |-> TRUE, exit |-> 1, output |-> <<"u", "s", "a", "g", "e">>],
     [exists |-> TRUE, exit |-> 1, output |-> T_Version(<<"7">>, <<"1", "0">>, <<"2">>)]}

AllBinaries == Binaries \cup {Ran(out) : out \in VersionOutputs \cup OtherOutputs}

Elastic == <<"e", "l", "a", "s", "t", "i", "c">>

Secret == <<"s", "e", "c", "r", "e", "t">>

Auth(login, password) == [present |-> TRUE, login |-> login, password |-> password]

Config(executable, port, pidfile, cluster_name, network_publish_host, http_auth) ==
    [executable |-> executable, host |-> <<"127.0.0.1">>, port |-> port,
     tcp_port |-> 9300, pidfile |-> pidfile, logs_path |-> <<"/tmp/es/logs">>,
     works_path |-> <<"/tmp/es/data">>, cluster_name |-> cluster_name,
     network_publish_host |-> network_publish_host,
     index_store_type |-> <<"mmapfs">>, timeout |-> 60, http_auth |-> http_auth]

Configs ==
    {Config(executable, 9200, <<"/tmp/es.pid">>, <<"cluster">>, <<"127.0.0.1">>, http_auth) :
        executable \in {<<"/usr/share/elasticsearch/bin/elasticsearch">>, <<"/opt/es">>},
        http_auth \in {NoAuth, Auth(Elastic, Secret)}}

\* configurations at large: field values that are plain, and field values that
\* carry the text of a flag or of a setting
AllConfigs ==
    {Config(<<"/opt/es">>, port, pidfile, cluster_name, network_publish_host, http_auth) :
        port \in {9200, 80},
        pidfile \in {<<"/tmp/es.pid">>, <<"/tmp/es", SP, "-p", SP, "/tmp/other.pid">>},
        cluster_name \in {<<"cluster">>, <<"c", SP, "-E", SP, "http.port=", "1">>},
        network_publish_host \in {<<"127.0.0.1">>, <<"_local_">>},
        http_auth \in {NoAuth, Auth(Elastic, Secret), Auth(<<"a">>, <<"b">>),
                       Auth(<<>>, <<>>), Auth(<<"a", "b">>, <<"c">>)}}

----------------------------------------------------------------------------
(* NoopElasticsearch, lines 11-30 *)

NoNoop == [constructed |-> FALSE, host |-> <<>>, port |-> 0, has_login |-> FALSE,
           login |-> <<>>, password |-> <<>>]

\* NoopElasticsearch.__init__
NoopElasticsearch(host, port, http_auth) ==
    [constructed |-> TRUE, host |-> host, port |-> port,
     has_login |-> http_auth.present,
     login |-> IF http_auth.present THEN http_auth.login ELSE <<>>,
     password |-> IF http_auth.present THEN http_auth.password ELSE <<>>]

\* a faulty variant: running() answers from the stored credentials
running_has_login == noop.has_login

\* NoopElasticsearch.running
running == TRUE

BoolText(b) == IF b THEN "True" ELSE "False"

----------------------------------------------------------------------------
(* The state machine *)

TypeInit ==
    /\ pc = "new"
    /\ _version = None
    /\ raised = NoError
    /\ supervisor = NotHanded
    /\ invocations = 0
    /\ captured = [kind |-> "none", output |-> <<>>]
    /\ ret = None
    /\ reads = 0
    /\ proc = "none"
    /\ noop = NoNoop
    /\ noop_ret = "unset"

Init == binary \in Binaries /\ cfg \in Configs /\ TypeInit

\* ElasticSearchExecutor(...): the whole constructor, lines 70-96
Construct ==
    /\ pc = "new"
    /\ LET headers == Headers(cfg.http_auth)
           v       == version(None, cfg.executable, binary)
           c       == _exec_command(cfg, v)
       IN  /\ _version' = v._version
           /\ invocations' = invocations + v.calls
           /\ captured' = IF v.calls > 0 THEN check_output(binary) ELSE captured
           /\ raised' = c.error
           /\ IF c.error = NoError
              THEN /\ pc' = "constructed"
                   /\ supervisor' = [handed |-> TRUE, command |-> c.command,
                                     url |-> Url(cfg), timeout |-> cfg.timeout,
                                     headers |-> headers]
              ELSE /\ pc' = "raised"
                   /\ supervisor' = supervisor
    /\ UNCHANGED <<binary, cfg, ret, reads, proc, noop, noop_ret>>

\* a read of executor.version after construction
ReadVersion ==
    /\ pc = "constructed"
    /\ reads < MaxReads
    /\ LET v == version(_version, cfg.executable, binary)
       IN  /\ _version' = v._version
           /\ invocations' = invocations + v.calls
           /\ captured' = IF v.calls > 0 THEN check_output(binary) ELSE captured
           /\ ret' = v.value
           /\ raised' = v.error
    /\ reads' = reads + 1
    /\ UNCHANGED <<binary, pc, cfg, supervisor, proc, noop, noop_ret>>

\* the program behind the executable path is replaced, upgraded or removed
BinaryChange ==
    /\ \E b \in Binaries : binary' = b
    /\ UNCHANGED <<pc, cfg, _version, raised, supervisor, invocations, captured, ret,
                   reads, proc, noop, noop_ret>>

\* the supervisor spawns the process of the command it was handed
SupervisorSpawn ==
    /\ supervisor.handed
    /\ proc = "none"
    /\ proc' = "running"
    /\ UNCHANGED <<binary, pc, cfg, _version, raised, supervisor, invocations, captured,
                   ret, reads, noop, noop_ret>>

\* teardown: the supervisor terminates the process
SupervisorStop ==
    /\ proc = "running"
    /\ proc' = "stopped"
    /\ UNCHANGED <<binary, pc, cfg, _version, raised, supervisor, invocations, captured,
                   ret, reads, noop, noop_ret>>

NoopInit ==
    /\ ~noop.constructed
    /\ \E host \in {<<"127.0.0.1">>, <<"es.example">>}, port \in {9200},
          http_auth \in {NoAuth, Auth(Elastic, Secret)} :
          noop' = NoopElasticsearch(host, port, http_auth)
    /\ UNCHANGED <<binary, pc, cfg, _version, raised, supervisor, invocations, captured,
                   ret, reads, proc, noop_ret>>

NoopRunning ==
    /\ noop.constructed
    /\ noop_ret' = BoolText(running)
    /\ UNCHANGED <<binary, pc, cfg, _version, raised, supervisor, invocations, captured,
                   ret, reads, proc, noop>>

Next ==
    \/ Construct
    \/ ReadVersion
    \/ BinaryChange
    \/ SupervisorSpawn
    \/ SupervisorStop
    \/ NoopInit
    \/ NoopRunning

Spec == Init /\ [][Next]_vars

\* the same machine, started on every stdout of the input set
InitOutputs == binary \in AllBinaries /\ cfg \in Configs /\ TypeInit

SpecOutputs == InitOutputs /\ [][Next]_vars

\* the same machine, started on every configuration of the input set
InitConfigs == binary \in Binaries /\ cfg \in AllConfigs /\ TypeInit

SpecConfigs == InitConfigs /\ [][Next]_vars

----------------------------------------------------------------------------
(* What the claims speak of *)

\* (major, minor, patch) is below 6.0.0: by major, then minor, then patch
Below600(v) ==
    \/ v[1] < 6
    \/ v[1] = 6 /\ v[2] < 0
    \/ v[1] = 6 /\ v[2] = 0 /\ v[3] < 0

AllDigits(text, from, to) == \A k \in from..to : IsDigit(text[k])

\* text[i..b] reads  Version: M.N.P : the prefix at i, one digit, a dot, the digits
\* up to a, a dot, the digits up to b
VersionLineAt(text, i, a, b) ==
    LET m == i + Len(VersionPrefix)
    IN  /\ OccursAt(VersionPrefix, text, i)
        /\ m + 2 <= a /\ a + 2 <= b /\ b <= Len(text)
        /\ IsDigit(text[m])
        /\ text[m + 1] = "."
        /\ AllDigits(text, m + 2, a)
        /\ text[a + 1] = "."
        /\ AllDigits(text, a + 2, b)

\* where a line that starts at i may end its minor (a) and its patch (b)
Ends(text, i) == (i + Len(VersionPrefix) + 2)..Len(text)

Starts(text) == {i \in DOMAIN text : OccursAt(VersionPrefix, text, i)}

HasVersionLineAt(text, i) ==
    \E a \in Ends(text, i) : \E b \in Ends(text, i) : VersionLineAt(text, i, a, b)

HasVersionLine(text) == \E i \in Starts(text) : HasVersionLineAt(text, i)

\* the first Version: M.N.P of the text, its numbers read to their last digit
FirstVersionLineAt(text, i, a, b) ==
    /\ VersionLineAt(text, i, a, b)
    /\ (b + 1 <= Len(text) => ~IsDigit(text[b + 1]))
    /\ \A j \in Starts(text) : j < i => ~HasVersionLineAt(text, j)

RECURSIVE StripLeadingZeros(_)
StripLeadingZeros(text) ==
    IF Len(text) > 1 /\ text[1] = "0" THEN StripLeadingZeros(Tail(text)) ELSE text

\* the digits `text` write the number n
Writes(text, n) == StripLeadingZeros(text) = Dec(n)

\* v is the triple of integers the line at (i, a, b) writes
TripleOf(text, i, a, b, v) ==
    LET m == i + Len(VersionPrefix)
    IN  /\ Len(v) = 3
        /\ Writes(<<text[m]>>, v[1])
        /\ Writes(SubSeq(text, m + 2, a), v[2])
        /\ Writes(SubSeq(text, a + 2, b), v[3])

NoProcess == ~supervisor.handed /\ proc = "none"

----------------------------------------------------------------------------
(* C1 *)

\* C1: once the executor is constructed (its version detected), every step keeps
\* self._version, every read of .version returns that cached value, and the number
\* of calls of check_output stays at one, whatever the binary has turned into.
C1_VersionIsCached ==
    [][(pc = "constructed" /\ pc' = "constructed") =>
          /\ _version' = _version
          /\ invocations = 1 /\ invocations' = 1
          /\ (reads' # reads => ret' = _version)]_vars

\* two reads made, the binary now reports another version, the first one is returned
C1_Witness ==
    /\ pc = "constructed"
    /\ reads >= 2
    /\ invocations = 1
    /\ _version = <<7, 10, 2>>
    /\ ret = <<7, 10, 2>>
    /\ binary = Ran(T_Version(<<"6">>, <<"0">>, <<"0">>))

(* C2 *)

\* C2: when the detected version is below 6.0.0, the constructor has raised the
\* "version is not supported" error, the supervisor was handed nothing and no
\* process was spawned.
C2_OldVersionRejected ==
    (pc # "new" /\ _version # None /\ Below600(_version)) =>
        /\ pc = "raised"
        /\ raised = [type |-> "RuntimeError", msg |-> <<NotSupported>>]
        /\ NoProcess

C2_Witness ==
    /\ pc = "raised"
    /\ _version = <<5, 6, 16>>
    /\ captured.kind = "ok"

(* C3 *)

\* C3: when check_output cannot find or run the executable, the constructor has
\* raised an error whose message includes the configured path, nothing is cached,
\* the supervisor was handed nothing and no process runs.
C3_ExecutableNotFound ==
    (pc # "new" /\ captured.kind = "OSError") =>
        /\ pc = "raised"
        /\ raised.type = "RuntimeError"
        /\ Contains(raised.msg, cfg.executable)
        /\ Contains(raised.msg, <<"' does not point to elasticsearch.">>)
        /\ _version = None
        /\ NoProcess

C3_Witness ==
    /\ pc = "raised"
    /\ captured.kind = "OSError"
    /\ cfg.executable = <<"/opt/es">>
    /\ invocations = 1

(* C4 *)

FormatErrorRaised ==
    /\ pc = "raised"
    /\ raised.type = "RuntimeError"
    /\ raised.msg # <<>>
    /\ raised.msg[1] = NotRecognized
    /\ OccursAt(captured.output, raised.msg, 2)
    /\ Len(raised.msg) = 1 + Len(captured.output)
    /\ _version = None
    /\ NoProcess

VersionIsTripleOfFirstLine ==
    \A i \in Starts(captured.output) : \A a \in Ends(captured.output, i) :
        \A b \in Ends(captured.output, i) :
            FirstVersionLineAt(captured.output, i, a, b) =>
                /\ _version # None
                /\ TripleOf(captured.output, i, a, b, _version)
                /\ (reads > 0 => ret = _version)
                /\ (pc = "constructed") = ~Below600(_version)
                /\ (pc = "raised") = Below600(_version)

\* C9: for every output check_output returns that holds Version: M.N.P (one-digit
\* M), the version is the triple of integers (M, N, P) of the first such line, its
\* numbers read to their last digit, and the constructor rejects it exactly when
\* that triple is below (6, 0, 0) by major, then minor, then patch.
C9_VersionIsTheTriple ==
    (pc # "new" /\ captured.kind = "ok") => VersionIsTripleOfFirstLine

\* Version: 7.10.02 inside a longer output was read as (7, 10, 2)
C9_Witness ==
    /\ pc = "constructed"
    /\ captured.kind = "ok"
    /\ captured.output = <<"x", "\n">> \o T_Version(<<"7">>, <<"1", "0">>, <<"0", "2">>)
                         \o <<".", "1">>
    /\ _version = <<7, 10, 2>>

(* C7 *)

\* C7: the Authorization header handed to the supervisor is "Basic " followed by
\* base64(login:password) when credentials are given, and no header is handed
\* when there are none.
C7_AuthorizationHeader ==
    supervisor.handed =>
        IF cfg.http_auth.present
        THEN /\ supervisor.headers.present
             /\ supervisor.headers.Authorization =
                    <<"Basic ">> \o B64Encode(Encode(cfg.http_auth.login \o <<":">>
                                                     \o cfg.http_auth.password))
        ELSE ~supervisor.headers.present

(* C8 *)

SettingNames ==
    {"-p", "http.port=", "transport.tcp.port=", "path.logs=", "path.data=",
     "cluster.name=", "network.host=", "index.store.type="}

\* the command holds  -E <name><value>  once, the value ending where the line ends
HasSetting(command, name, value) ==
    /\ Count(command, name) = 1
    /\ \E i \in DOMAIN command :
          /\ OccursAt(<<"-E", SP, name>> \o value, command, i)
          /\ i + 3 + Len(value) <= Len(command)
          /\ command[i + 3 + Len(value)] \in {NL, End}

HasPidfile(command, value) ==
    /\ Count(command, "-p") = 1
    /\ \E i \in DOMAIN command : OccursAt(<<"-p", SP>> \o value \o <<NL>>, command, i)

CommandHasEverySetting ==
    LET command == supervisor.command
    IN  /\ supervisor.handed
        /\ HasPidfile(command, cfg.pidfile)
        /\ HasSetting(command, "http.port=", Dec(cfg.port))
        /\ HasSetting(command, "transport.tcp.port=", Dec(cfg.tcp_port))
        /\ HasSetting(command, "path.logs=", cfg.logs_path)
        /\ HasSetting(command, "path.data=", cfg.works_path)
        /\ HasSetting(command, "cluster.name=", cfg.cluster_name)
        /\ HasSetting(command, "network.host=",
                      <<"'">> \o cfg.network_publish_host \o <<"'">>)
        /\ HasSetting(command, "index.store.type=", cfg.index_store_type)

\* no field of the configuration holds the text of a flag or of a setting's name
PlainValues(c) ==
    \A name \in SettingNames :
        \A value \in {c.executable, c.pidfile, c.logs_path, c.works_path, c.cluster_name,
                      c.network_publish_host, c.index_store_type} :
            Count(value, name) = 0

VersionSupported == pc # "new" /\ _version # None /\ ~Below600(_version)

\* C8, as claimed: for every detected version >= 6.0.0 and every configuration the
\* command holds the pidfile flag and each setting exactly once, with the value of
\* its configuration field.
C8_AsClaimed == VersionSupported => CommandHasEverySetting

\* C8, amended: the same, for every configuration whose field values hold neither
\* the pidfile flag nor the name of a setting.
C8_CommandHasEverySetting ==
    (VersionSupported /\ PlainValues(cfg)) => CommandHasEverySetting

C8_Witness ==
    /\ supervisor.handed
    /\ _version = <<7, 10, 2>>
    /\ PlainValues(cfg)
    /\ cfg.port = 80
    /\ cfg.network_publish_host = <<"_local_">>
    /\ CommandHasEverySetting

(* C10 *)

\* C10: a step of the no-op executor (its construction, a call of running())
\* leaves running() answering True, and spawns nothing, hands the supervisor
\* nothing, runs no binary and raises nothing.
C10_NoopAlwaysRunning ==
    [][(noop' # noop \/ noop_ret' # noop_ret) =>
          /\ noop_ret' \in {"unset", "True"}
          /\ UNCHANGED <<proc, supervisor, invocations, captured, raised, pc>>]_vars

\* running() answered True on a no-op executor built without credentials
C10_Witness ==
    /\ noop.constructed
    /\ ~noop.has_login
    /\ noop_ret = "True"
    /\ proc = "none"

====
